---- MODULE Spec2Model ----
(***************************************************************************)
(* Model of matrix-terminal: the colour model (src/src/color.rs) and the   *)
(* glyph / column / waterfall state machine with its render-step-sleep     *)
(* loop (src/src/main.rs).                                                 *)
(*                                                                         *)
(* f64 values are modelled as exact rationals <<n, d>> in lowest terms     *)
(* with d > 0; a `char` is modelled by its Unicode code point.             *)
(***************************************************************************)
EXTENDS Integers, Sequences, FiniteSets

\* ------------------------------------------------------------------ bounds

\* Largest terminal width / height the size query returns in the model.
MaxWidth == 2

MaxHeight == 3

\* Largest number of cells (width * height) of a terminal in the model.
MaxCells == 4

\* Waterfall.step calls after which the loop is no longer followed.
MaxTicks == 5

\* The pure colour functions are applied to the colours whose channels are
\* among the ChannelParts + 1 values that cut 0..255 into ChannelParts parts
\* (and the channel values of the program's base colour).
ChannelParts == 4

\* ------------------------------------------------- rational arithmetic (f64)

Abs(x) == IF x < 0 THEN -x ELSE x

\* Greatest common divisor of a >= 0 and b >= 0.
GCD[a \in Nat, b \in Nat] == IF b = 0 THEN a ELSE GCD[b, a % b]

\* The rational n/d (d # 0) in lowest terms with a positive denominator.
Rat(n, d) ==
    LET g == GCD[Abs(n), Abs(d)]
        sgn == IF d < 0 THEN -1 ELSE 1
    IN  <<sgn * (n \div g), sgn * (d \div g)>>

\* The pairs that represent rationals.
Rats == Int \X Int

Q(n) == <<n, 1>>

RNeg(x) == <<-x[1], x[2]>>

RAdd[x \in Rats, y \in Rats] ==
    LET g == GCD[x[2], y[2]]
    IN  Rat(x[1] * (y[2] \div g) + y[1] * (x[2] \div g), (x[2] \div g) * y[2])

RSub[x \in Rats, y \in Rats] == RAdd[x, RNeg(y)]

RMul[x \in Rats, y \in Rats] ==
    LET g1 == GCD[Abs(x[1]), y[2]]
        g2 == GCD[Abs(y[1]), x[2]]
    IN  Rat((x[1] \div g1) * (y[1] \div g2), (x[2] \div g2) * (y[2] \div g1))

\* y # 0
RDiv[x \in Rats, y \in Rats] == RMul[x, Rat(y[2], y[1])]

RLt[x \in Rats, y \in Rats] ==
    LET g == GCD[x[2], y[2]]
    IN  x[1] * (y[2] \div g) < y[1] * (x[2] \div g)

RMax[x \in Rats, y \in Rats] == IF RLt[x, y] THEN y ELSE x

RMin[x \in Rats, y \in Rats] == IF RLt[y, x] THEN y ELSE x

\* f64::round (half away from zero) followed by `as u8` (saturating cast).
RoundU8[x \in Rats] ==
    LET v == IF x[1] >= 0
             THEN (2 * x[1] + x[2]) \div (2 * x[2])
             ELSE -((2 * (-x[1]) + x[2]) \div (2 * x[2]))
    IN  IF v < 0 THEN 0 ELSE IF v > 255 THEN 255 ELSE v

\* ------------------------------------------------------------- colour model

from_rgba(r, g, b, a) == [r |-> r, g |-> g, b |-> b, a |-> a]

\* from_rgb leaving the colour transparent (alpha 0 rather than 255).
from_rgb_transparent(r, b, g) == from_rgba(r, g, b, 0)

\* The parameters are declared in the order (r, b, g).
from_rgb(r, b, g) == from_rgba(r, g, b, 255)

HslColor_new(h, s, l) == [h |-> h, s |-> s, l |-> l]

as_hsl(c) ==
    LET r == RDiv[Q(c.r), Q(255)]
        g == RDiv[Q(c.g), Q(255)]
        b == RDiv[Q(c.b), Q(255)]
        vmax == RMax[r, RMax[g, b]]
        vmin == RMin[r, RMin[g, b]]
        l == RDiv[RAdd[vmax, vmin], Q(2)]
    IN  IF vmax = vmin
        THEN HslColor_new(Q(0), Q(0), l)
        ELSE
          LET d == RSub[vmax, vmin]
              s == IF RLt[Rat(1, 2), l]
                   THEN RDiv[d, RSub[RSub[Q(2), vmax], vmin]]
                   ELSE RDiv[d, RAdd[vmax, vmin]]
              h0 == RDiv[RAdd[vmax, vmin], Q(2)]
              h1 == IF vmax = r
                    THEN LET hr == RDiv[RSub[g, b], d]
                         IN  IF RLt[g, b] THEN RAdd[hr, Q(6)] ELSE hr
                    ELSE h0
              h2 == IF vmax = g THEN RAdd[RDiv[RSub[b, r], d], Q(2)] ELSE h1
              h3 == IF vmax = b THEN RAdd[RDiv[RSub[r, g], d], Q(4)] ELSE h2
              h == RDiv[h3, Q(6)]
          IN  HslColor_new(RMul[h, Q(360)], RMul[s, Q(100)], RMul[l, Q(100)])

hue_to_rgb(p, q, t) ==
    LET t1 == IF RLt[t, Q(0)] THEN RAdd[t, Q(1)] ELSE t
        t2 == IF RLt[Q(1), t1] THEN RSub[t1, Q(1)] ELSE t1
    IN  IF RLt[t2, Rat(1, 6)]
        THEN RAdd[p, RMul[RMul[RSub[q, p], Q(6)], t2]]
        ELSE IF RLt[t2, Rat(1, 2)]
        THEN q
        ELSE IF RLt[t2, Rat(2, 3)]
        THEN RAdd[p, RMul[RMul[RSub[q, p], RSub[Rat(2, 3), t2]], Q(6)]]
        ELSE p

\* impl From<HslColor> for Color
Color_from(v) ==
    LET h == RDiv[v.h, Q(360)]
        s == RDiv[v.s, Q(100)]
        l == RDiv[v.l, Q(100)]
        q == IF RLt[l, Rat(1, 2)]
             THEN RMul[l, RAdd[Q(1), s]]
             ELSE RSub[RAdd[l, s], RMul[l, s]]
        p == RSub[RMul[Q(2), l], q]
        r == IF s = Q(0) THEN l ELSE hue_to_rgb(p, q, RAdd[h, Rat(1, 3)])
        g == IF s = Q(0) THEN l ELSE hue_to_rgb(p, q, h)
        b == IF s = Q(0) THEN l ELSE hue_to_rgb(p, q, RSub[h, Rat(1, 3)])
    IN  from_rgb(RoundU8[RMul[r, Q(255)]],
                 RoundU8[RMul[g, Q(255)]],
                 RoundU8[RMul[b, Q(255)]])

\* ------------------------------------------------------------------- glyph

\* The alphabet of new_random, as code points, in the order of the literal.
characters ==
    <<65418, 65424, 65419, 65392, 65395, 65404, 65413, 65427, 65414, 65403,
      65436, 65410, 65397, 65432, 65393, 65422, 65411, 65423, 65401, 65426,
      65396, 65398, 65399, 65425, 65429, 65431, 65406, 65416, 65405, 65408,
      65415, 65421, 65382, 65394, 65400, 65402, 65407, 65409, 65412, 65417,
      65420, 65428, 65430, 65433, 65434, 65435, 65437, 48, 49, 50, 51, 52, 53,
      55, 56, 57, 90, 58, 46, 34, 61, 42, 43, 45, 60, 62, 166, 9548, 231>>

Glyph_new(character, color) == [character |-> character, color |-> color]

fade_color(glyph) ==
    LET hsl == as_hsl(glyph.color)
    IN  [glyph EXCEPT !.color =
            Color_from(HslColor_new(hsl.h,
                                    RMul[hsl.s, Rat(4, 5)],
                                    RMul[hsl.l, Rat(4, 5)]))]

\* ' ' is code point 32.
Glyph_empty == Glyph_new(32, from_rgba(0, 0, 0, 0))

\* The values rand.gen_range(0..characters.chars().count()) returns in the
\* model: the first and the last position of the alphabet.
CharDraws == {0, Len(characters) - 1}

\* new_random taking the idx-th printable ASCII character after '!' rather
\* than the idx-th character of the alphabet string.
new_random_ascii(idx, color) == Glyph_new(33 + idx, color)

\* idx is the value drawn by gen_range; chars().nth(idx).
new_random(idx, color) == Glyph_new(characters[idx + 1], color)

\* One terminal command or write of Glyph::render / MatrixWaterfall::render.
Op(op, r, g, b, ch) == [op |-> op, r |-> r, g |-> g, b |-> b, ch |-> ch]

Glyph_render(glyph) ==
    << Op("SetBackgroundColor", 0, 0, 0, 0),
       Op("SetForegroundColor", glyph.color.r, glyph.color.g, glyph.color.b, 0),
       Op("Print", 0, 0, 0, glyph.character),
       Op("write", 0, 0, 0, glyph.character) >>

\* ------------------------------------------------------------------ column

Column_new(height, base_color) ==
    [ height |-> height,
      base_color |-> base_color,
      glyphs |-> [i \in 1..height |-> Glyph_empty],
      active_index |-> 0 ]

\* Values of rand.gen::<f32>(): k / 2^24 for a 24-bit k; the model draws the
\* least and the greatest value and the two values around the threshold.
GateDraws == { Rat(k, 16777216) : k \in {0, 1677721, 1677722, 16777215} }

\* gate_applies with the index test lost: the gate is evaluated on every step.
gate_applies_always(c) == c.active_index >= 0

\* self.active_index == 0: the gate draw is taken only then (&& short-circuits).
gate_applies(c) == c.active_index = 0

\* gate_exceeds with another threshold, 0.5.
gate_exceeds_half(draw) == RLt[Rat(1, 2), draw]

\* rand.gen::<f32>() > 0.1, the literal being the f32 nearest to 0.1.
gate_exceeds(draw) == RLt[Rat(13421773, 134217728), draw]

\* The early return of Column::step; gate is <<>> or <<draw>>.
step_returns_early(c, gate) == gate_applies(c) /\ gate_exceeds(gate[1])

\* self.glyphs[self.active_index] is out of bounds.
step_panics(c) == c.active_index >= Len(c.glyphs)

\* Column::step with the fade loop before the gate: a blocked tick fades
\* every glyph as well.
Column_step_fade_first(c, gate, idx) ==
    LET faded == [i \in 1..Len(c.glyphs) |-> fade_color(c.glyphs[i])]
        written == [faded EXCEPT ![c.active_index + 1] = new_random(idx, c.base_color)]
        next == c.active_index + 1
    IN  IF step_returns_early(c, gate)
        THEN [c EXCEPT !.glyphs = faded]
        ELSE [c EXCEPT !.glyphs = written,
                       !.active_index = IF next >= c.height THEN 0 ELSE next]

\* Column::step without the wrap: active_index stays on the last cell.
Column_step_no_wrap(c, gate, idx) ==
    IF step_returns_early(c, gate)
    THEN c
    ELSE LET faded == [i \in 1..Len(c.glyphs) |-> fade_color(c.glyphs[i])]
             written == [faded EXCEPT ![c.active_index + 1] = new_random(idx, c.base_color)]
             next == c.active_index + 1
         IN  [c EXCEPT !.glyphs = written,
                       !.active_index = IF next >= c.height THEN c.active_index ELSE next]

\* Column::step with the write and the fade loop exchanged: the new glyph is
\* written first, so the head is faded once as well.
Column_step_spawn_first(c, gate, idx) ==
    IF step_returns_early(c, gate)
    THEN c
    ELSE
      LET written == [c.glyphs EXCEPT ![c.active_index + 1] =
                                          new_random(idx, c.base_color)]
          faded == [i \in 1..Len(written) |-> fade_color(written[i])]
          next == c.active_index + 1
      IN  [c EXCEPT !.glyphs = faded,
                    !.active_index = IF next >= c.height THEN 0 ELSE next]

\* Column::step: gate is <<>> (not drawn) or <<draw>>, idx the
\* character draw.
Column_step(c, gate, idx) ==
    IF step_returns_early(c, gate)
    THEN c
    ELSE
      LET faded == [i \in 1..Len(c.glyphs) |-> fade_color(c.glyphs[i])]
          written == [faded EXCEPT ![c.active_index + 1] =
                                        new_random(idx, c.base_color)]
          next == c.active_index + 1
      IN  [c EXCEPT !.glyphs = written,
                    !.active_index = IF next >= c.height THEN 0 ELSE next]

\* Column::render: the commands of row y; y out of range panics.
Column_render(c, y) == Glyph_render(c.glyphs[y + 1])

\* --------------------------------------------------------------- waterfall

\* MatrixWaterfall::new giving each column the width for its height.
MatrixWaterfall_new_square(w, h, color) ==
    [ width |-> w,
      height |-> h,
      base_color |-> color,
      columns |-> [x \in 1..w |-> Column_new(w, color)] ]

MatrixWaterfall_new(w, h, color) ==
    [ width |-> w,
      height |-> h,
      base_color |-> color,
      columns |-> [x \in 1..w |-> Column_new(h, color)] ]

\* for column in &mut self.columns of MatrixWaterfall::step, taken from the
\* right: the column stepped after n columns is the n-th from the end.
next_column_reversed(w, n) == Len(w.columns) - 1 - n

\* for column in &mut self.columns of MatrixWaterfall::step: the column
\* stepped after n columns have been stepped is column n.
next_column(w, n) == n

\* for column in &self.columns { column.render(out, y)?; } from column x on
RECURSIVE render_row(_, _, _)
render_row(w, y, x) ==
    IF x >= Len(w.columns)
    THEN <<>>
    ELSE Column_render(w.columns[x + 1], y) \o render_row(w, y, x + 1)

\* for y in 0..self.height { ... } from row y on
RECURSIVE render_rows(_, _)
render_rows(w, y) ==
    IF y >= w.height
    THEN <<>>
    ELSE render_row(w, y, 0) \o render_rows(w, y + 1)

\* Every command and write of one MatrixWaterfall::render call, in order.
render_ops(w) ==
    << Op("Hide", 0, 0, 0, 0), Op("MoveTo", 0, 0, 0, 0) >>
    \o render_rows(w, 0)
    \o << Op("Show", 0, 0, 0, 0), Op("flush", 0, 0, 0, 0) >>

\* The result of queue!(out, cursor::MoveTo(0,0)) is dropped (no `?`); every
\* other command, write and the flush is followed by `?`.
is_checked(o) == o.op # "MoveTo"

\* A row of render indexes a column past its glyphs.
render_panics(w) ==
    \E x \in 1..Len(w.columns) : w.height > Len(w.columns[x].glyphs)

\* ------------------------------------------------------------- main program

VARIABLES
    pc,         \* position of main: "start", "render", "step", "sleep",
                \* "failed" (main returned Err), "panicked"
    waterfall,  \* the MatrixWaterfall of main (meaningful once built)
    built,      \* MatrixWaterfall::new has run
    col,        \* Waterfall.step: number of columns already stepped this tick
    frame,      \* what the last render call put on the output, in order
    io,         \* failures of the terminal during the last call that did I/O
    last,       \* the last Column.step call: column, index before, its draws
    draws,      \* the column that took each value drawn from the random
                \* source during the current (or last) MatrixWaterfall::step
    steps,      \* completed MatrixWaterfall::step calls
    ticks,      \* per column, the Column::step calls that proceeded so far,
                \* counted up to the height of the column
    renders,    \* MatrixWaterfall::render calls made
    call,       \* colour functions: the function applied last ("none" at first)
    args,       \* colour functions: the 8-bit arguments <<x, y, z, w>>
    rgb,        \* colour functions: the Color returned by the last call
    hsl         \* colour functions: the HslColor returned by the last call

mainvars ==
    <<pc, waterfall, built, col, frame, io, last, draws, steps, ticks, renders>>

colorvars == <<call, args, rgb, hsl>>

vars == <<mainvars, colorvars>>

\* Color::from_rgba(0,255,43,255) of main.
base_color == from_rgba(0, 255, 43, 255)

NoIo == [failed |-> "none", dropped |-> {}]

NoStep == [col |-> -1, k |-> 0, gate |-> <<>>, char |-> <<>>, proceeded |-> FALSE]

MainInit ==
    /\ pc = "start"
    /\ waterfall = MatrixWaterfall_new(0, 0, base_color)
    /\ built = FALSE
    /\ col = 0
    /\ frame = <<>>
    /\ io = NoIo
    /\ last = NoStep
    /\ draws = <<>>
    /\ steps = 0
    /\ ticks = <<>>
    /\ renders = 0

\* No colour function is called on its own by the main program.
ColorIdle ==
    /\ call = "none"
    /\ args = <<0, 0, 0, 0>>
    /\ rgb = from_rgba(0, 0, 0, 0)
    /\ hsl = HslColor_new(Q(0), Q(0), Q(0))

Init == MainInit /\ ColorIdle

\* The (width, height) pairs terminal::size() returns in the model.
TerminalSizes ==
    { size \in (0..MaxWidth) \X (0..MaxHeight) : size[1] * size[2] <= MaxCells }

\* terminal::size() fails: `?` returns the error from main.
TerminalSizeFails ==
    /\ pc = "start"
    /\ pc' = "failed"
    /\ io' = [failed |-> "size", dropped |-> {}]
    /\ UNCHANGED <<waterfall, built, col, frame, last, draws, steps, ticks, renders,
                   colorvars>>

\* terminal::size() returns (width, height); the waterfall is built.
MainNew ==
    /\ pc = "start"
    /\ \E size \in TerminalSizes :
          /\ waterfall' = MatrixWaterfall_new(size[1], size[2], base_color)
          /\ ticks' = [x \in 1..size[1] |-> 0]
    /\ built' = TRUE
    /\ pc' = "render"
    /\ UNCHANGED <<col, frame, io, last, draws, steps, renders, colorvars>>

\* Positions of ops at which the model lets the terminal fail: the first
\* operation of each kind.
FailPositions(ops) ==
    { i \in 1..Len(ops) : \A j \in 1..(i - 1) : ops[j].op # ops[i].op }

\* The sets of failing positions of ops that one run can meet: any of the
\* operations up to the first failure whose result is checked.
FailureSets(ops) ==
    { D \cup P :
        D \in SUBSET { i \in FailPositions(ops) : ~is_checked(ops[i]) },
        P \in {{}} \cup { {i} : i \in { j \in FailPositions(ops) : is_checked(ops[j]) } } }

\* Position of the first failure that `?` propagates, 0 when there is none.
first_fatal(ops, F) ==
    LET fatal == { i \in F : is_checked(ops[i]) }
    IN  IF fatal = {} THEN 0 ELSE CHOOSE i \in fatal : \A j \in fatal : i <= j

\* The operations that reached the output: those before the first propagated
\* failure that did not fail themselves.
RECURSIVE emitted(_, _, _, _)
emitted(ops, F, stop, i) ==
    IF i > Len(ops) \/ (stop # 0 /\ i >= stop)
    THEN <<>>
    ELSE (IF i \in F THEN <<>> ELSE <<ops[i]>>) \o emitted(ops, F, stop, i + 1)

\* waterfall.render(&mut stdout)?
Render ==
    /\ pc = "render"
    /\ IF render_panics(waterfall)
       THEN /\ pc' = "panicked"
            /\ UNCHANGED <<frame, io>>
       ELSE LET ops == render_ops(waterfall)
            IN  \E F \in FailureSets(ops) :
                  LET stop == first_fatal(ops, F)
                  IN  /\ frame' = emitted(ops, F, stop, 1)
                      /\ io' = [ failed |-> IF stop = 0 THEN "none" ELSE ops[stop].op,
                                 dropped |-> { ops[i].op :
                                     i \in { j \in F : stop = 0 \/ j < stop } } ]
                      /\ pc' = IF stop = 0 THEN "step" ELSE "failed"
    /\ renders' = renders + 1
    /\ col' = 0
    /\ UNCHANGED <<waterfall, built, last, draws, steps, ticks, colorvars>>

\* column.step(rand) for the next column of MatrixWaterfall::step. The gate
\* value is drawn only at active_index 0, the character only past the gate.
ColumnStep ==
    /\ pc = "step"
    /\ col < Len(waterfall.columns)
    /\ LET x == next_column(waterfall, col)
           c == waterfall.columns[x + 1]
           drawn == IF col = 0 THEN <<>> ELSE draws
       IN  \E gate \in (IF gate_applies(c) THEN { <<d>> : d \in GateDraws } ELSE {<<>>}) :
           \E char \in (IF step_returns_early(c, gate)
                         THEN {<<>>}
                         ELSE { <<idx>> : idx \in CharDraws }) :
             /\ last' = [col |-> x, k |-> c.active_index, gate |-> gate,
                         char |-> char, proceeded |-> char # <<>>]
             /\ draws' = drawn \o [i \in 1..(Len(gate) + Len(char)) |-> x]
             /\ IF char # <<>> /\ step_panics(c)
                THEN /\ pc' = "panicked"
                     /\ UNCHANGED <<waterfall, col, ticks>>
                ELSE /\ waterfall' = [waterfall EXCEPT !.columns[x + 1] =
                          Column_step(c, gate, IF char = <<>> THEN 0 ELSE char[1])]
                     /\ ticks' = IF char = <<>> \/ ticks[x + 1] >= c.height
                                  THEN ticks
                                  ELSE [ticks EXCEPT ![x + 1] = @ + 1]
                     /\ col' = col + 1
                     /\ pc' = pc
    /\ UNCHANGED <<built, frame, io, steps, renders, colorvars>>

\* MatrixWaterfall::step returns: every column has been stepped.
StepDone ==
    /\ pc = "step"
    /\ col = Len(waterfall.columns)
    /\ pc' = "sleep"
    /\ steps' = steps + 1
    /\ draws' = IF col = 0 THEN <<>> ELSE draws
    /\ UNCHANGED <<waterfall, built, col, frame, io, last, ticks, renders, colorvars>>

\* The loop with the render call lost: after the sleep the next
\* MatrixWaterfall::step starts at once.
Sleep_then_step ==
    /\ pc = "sleep"
    /\ steps < MaxTicks
    /\ pc' = "step"
    /\ col' = 0
    /\ UNCHANGED <<waterfall, built, frame, io, last, draws, steps, ticks, renders,
                   colorvars>>

\* std::thread::sleep(100 ms), then the next iteration of the loop.
Sleep ==
    /\ pc = "sleep"
    /\ steps < MaxTicks
    /\ pc' = "render"
    /\ UNCHANGED <<waterfall, built, col, frame, io, last, draws, steps, ticks, renders,
                   colorvars>>

Next == TerminalSizeFails \/ MainNew \/ Render \/ ColumnStep \/ StepDone \/ Sleep

Spec == Init /\ [][Next]_vars

\* ------------------------------------- the loop of main running for ever

\* waterfall.render(&mut stdout)? when no terminal operation fails.
LiveRender ==
    /\ pc = "render"
    /\ IF render_panics(waterfall)
       THEN /\ pc' = "panicked"
            /\ UNCHANGED <<frame, io>>
       ELSE /\ frame' = render_ops(waterfall)
            /\ io' = NoIo
            /\ pc' = "step"
    /\ col' = 0
    /\ UNCHANGED <<waterfall, built, last, draws, steps, ticks, renders, colorvars>>

\* MatrixWaterfall::step returns (calls are not counted here).
LiveStepDone ==
    /\ pc = "step"
    /\ col = Len(waterfall.columns)
    /\ pc' = "sleep"
    /\ draws' = IF col = 0 THEN <<>> ELSE draws
    /\ UNCHANGED <<waterfall, built, col, frame, io, last, steps, ticks, renders,
                   colorvars>>

\* std::thread::sleep(100 ms), then the next iteration, without end.
LiveSleep ==
    /\ pc = "sleep"
    /\ pc' = "render"
    /\ UNCHANGED <<waterfall, built, col, frame, io, last, draws, steps, ticks, renders,
                   colorvars>>

LiveNext == MainNew \/ LiveRender \/ ColumnStep \/ LiveStepDone \/ LiveSleep

\* A Column::step call of MatrixWaterfall::step returns, as it shows on
\* the position of main: the loop over the columns moves on by one.
ColumnStepReturns ==
    /\ pc = "step"
    /\ col < Len(waterfall.columns)
    /\ pc' = "step"
    /\ col' = col + 1

\* The Column::step call on column x is made at active_index 0 and draws a
\* gate value that does not exceed the threshold (gen::<f32>() > 0.1 is
\* false), as it shows on the position of main and the record of the call:
\* the call goes on to draw a character, then returns or panics.
GatePasses(x) ==
    /\ pc = "step"
    /\ col = x
    /\ x < Len(waterfall.columns)
    /\ gate_applies(waterfall.columns[x + 1])
    /\ \E d \in GateDraws, idx \in CharDraws :
          /\ ~gate_exceeds(d)
          /\ last' = [col |-> x, k |-> 0, gate |-> <<d>>, char |-> <<idx>>,
                      proceeded |-> TRUE]
    /\ \/ pc' = "step" /\ col' = x + 1
       \/ pc' = "panicked" /\ col' = x

\* The loop never stops by itself: each step of main is taken once it can
\* be (every Column::step call ends, render, step and sleep return). And
\* the random source is fair to each column: a column whose gate value is
\* drawn again and again draws a passing value again and again.
LiveSpec ==
    /\ Init
    /\ [][LiveNext]_vars
    /\ WF_vars(MainNew \/ LiveRender \/ LiveStepDone \/ LiveSleep)
    /\ WF_<<pc, col>>(ColumnStepReturns)
    /\ \A x \in 0..(MaxWidth - 1) : SF_<<pc, col>>(GatePasses(x))

\* --------------------------------------------- the colour functions alone

ChannelValues ==
    { (255 * i) \div ChannelParts : i \in 0..ChannelParts }
        \cup {base_color.r, base_color.g, base_color.b}

\* The Color with the channels of args.
arg_color == [r |-> args[1], g |-> args[2], b |-> args[3], a |-> args[4]]

ColorInit ==
    /\ MainInit
    /\ call = "none"
    /\ args \in ChannelValues \X ChannelValues \X ChannelValues \X {0, 255}
    /\ rgb = from_rgba(0, 0, 0, 0)
    /\ hsl = HslColor_new(Q(0), Q(0), Q(0))

\* Color::from_rgba(x, y, z, w)
CallFromRgba ==
    /\ call = "none"
    /\ call' = "from_rgba"
    /\ rgb' = from_rgba(args[1], args[2], args[3], args[4])
    /\ UNCHANGED <<mainvars, args, hsl>>

\* Color::from_rgb(x, y, z)
CallFromRgb ==
    /\ call = "none"
    /\ call' = "from_rgb"
    /\ rgb' = from_rgb(args[1], args[2], args[3])
    /\ UNCHANGED <<mainvars, args, hsl>>

\* c.as_hsl()
CallAsHsl ==
    /\ call = "none"
    /\ call' = "as_hsl"
    /\ hsl' = as_hsl(arg_color)
    /\ UNCHANGED <<mainvars, args, rgb>>

\* Color::from(hsl) for the HslColor an as_hsl call returned
CallColorFrom ==
    /\ call = "as_hsl"
    /\ call' = "from"
    /\ rgb' = Color_from(hsl)
    /\ UNCHANGED <<mainvars, args, hsl>>

\* glyph.fade_color() for a glyph of the colour
CallFadeColor ==
    /\ call = "none"
    /\ call' = "fade_color"
    /\ rgb' = fade_color(Glyph_new(characters[1], arg_color)).color
    /\ hsl' = as_hsl(arg_color)
    /\ UNCHANGED <<mainvars, args>>

ColorNext ==
    CallFromRgba \/ CallFromRgb \/ CallAsHsl \/ CallColorFrom \/ CallFadeColor

ColorSpec == ColorInit /\ [][ColorNext]_vars

\* ------------------------------------------------------------------ claims

Alphabet == { characters[i] : i \in 1..Len(characters) }

\* This transition is a Column::step call, on column col, that returned.
ColumnStepped == pc = "step" /\ col' = col + 1

\* The gate draw of a step, as the random source gave it, is at most 0.1.
DrawAtMostTenth(gate) == gate # <<>> /\ ~RLt[Rat(1, 10), gate[1]]

\* A step from index k with gate draw `gate` proceeds: k # 0, or k = 0 and the
\* draw is at most 0.1.
Proceeds(k, gate) == k # 0 \/ DrawAtMostTenth(gate)

\* The column the last Column::step call was made on, as it is now.
LastColumn == waterfall.columns[last.col + 1]

\* C1: a proceeding Column.step on a column of height >= 1 at active_index k
\* leaves at k a freshly spawned glyph (a character of the alphabet, the one
\* drawn) whose colour is exactly base_color, leaves every other glyph with
\* its character and its colour faded exactly once, and sets active_index to
\* (k + 1) mod height.
C1_ProceedingStepSpawnsHead ==
    [][ ( /\ ColumnStepped
          /\ waterfall.columns[col + 1].height >= 1
          /\ Proceeds(waterfall.columns[col + 1].active_index, last'.gate) )
        => LET c == waterfall.columns[col + 1]
               d == waterfall'.columns[col + 1]
               k == c.active_index
           IN  /\ last'.char # <<>>
               /\ d.glyphs[k + 1] =
                     Glyph_new(characters[last'.char[1] + 1], c.base_color)
               /\ d.glyphs[k + 1].character \in Alphabet
               /\ Len(d.glyphs) = Len(c.glyphs)
               /\ \A i \in 1..Len(c.glyphs) :
                     i # k + 1 =>
                        /\ d.glyphs[i].character = c.glyphs[i].character
                        /\ d.glyphs[i].color = fade_color(c.glyphs[i]).color
               /\ d.active_index = (k + 1) % c.height
               /\ d.height = c.height /\ d.base_color = c.base_color
      ]_vars

\* C1 witness: a step has just proceeded at the last index of a column of
\* height 3 whose first cell holds an older, faded glyph: the head is at
\* base_color and the index has wrapped.
C1_Witness ==
    /\ last.col >= 0
    /\ LastColumn.height = 3
    /\ last.k = 2
    /\ Proceeds(last.k, last.gate)
    /\ LastColumn.active_index = 0
    /\ LastColumn.glyphs[3].color = LastColumn.base_color
    /\ LastColumn.glyphs[1].character \in Alphabet
    /\ LastColumn.glyphs[1].color # LastColumn.base_color

\* C2 (as claimed): in every column, after construction and after any steps,
\* 0 <= active_index < height.
C2_ActiveIndexInRange ==
    built =>
       \A x \in 1..Len(waterfall.columns) :
          /\ 0 <= waterfall.columns[x].active_index
          /\ waterfall.columns[x].active_index < waterfall.columns[x].height

\* C3: a Column.step at active_index 0 whose gate draw is above 0.1 changes
\* nothing of the column (no glyph, not active_index, height or base_color),
\* nor of any other column, and draws no character.
C3_BlockedGateIsNoOp ==
    [][ ( /\ ColumnStepped
          /\ waterfall.columns[col + 1].active_index = 0
          /\ last'.gate # <<>>
          /\ RLt[Rat(1, 10), last'.gate[1]] )
        => /\ waterfall' = waterfall
           /\ last'.char = <<>>
      ]_vars

\* C3 witness: the gate has just blocked a step of a column that shows a
\* written glyph, which a fade would have changed.
C3_Witness ==
    /\ last.col >= 0
    /\ last.k = 0
    /\ last.gate # <<>>
    /\ RLt[Rat(1, 10), last.gate[1]]
    /\ LastColumn.active_index = 0
    /\ \E i \in 1..Len(LastColumn.glyphs) :
          /\ LastColumn.glyphs[i].character \in Alphabet
          /\ fade_color(LastColumn.glyphs[i]) # LastColumn.glyphs[i]

\* C4: Column.step takes a gate draw exactly when active_index = 0; at
\* active_index k # 0 it always proceeds: it writes one new glyph at k and
\* moves active_index to (k + 1) mod height; a gate-passing step at 0 moves
\* it to 1 mod height. So after a gate-passing tick the indices run
\* 1, 2, ..., height-1, 0, with the gate evaluated again only back at 0.
C4_GateOnlyAtTop ==
    [][ ColumnStepped
        => LET c == waterfall.columns[col + 1]
               d == waterfall'.columns[col + 1]
               k == c.active_index
           IN  /\ (last'.gate # <<>>) <=> (k = 0)
               /\ k # 0 =>
                    /\ last'.char # <<>>
                    /\ d.glyphs[k + 1] =
                          Glyph_new(characters[last'.char[1] + 1], c.base_color)
                    /\ d.active_index = (k + 1) % c.height
               /\ (k = 0 /\ DrawAtMostTenth(last'.gate)) =>
                    /\ last'.char # <<>>
                    /\ d.active_index = 1 % c.height
      ]_vars

\* C4 witness: a drop has run through a column of height 3 without a gate
\* draw at index 2 and the index is back at 0, every cell written.
C4_Witness ==
    /\ last.col >= 0
    /\ LastColumn.height = 3
    /\ last.k = 2
    /\ last.gate = <<>>
    /\ last.char # <<>>
    /\ LastColumn.active_index = 0
    /\ \A i \in 1..3 : LastColumn.glyphs[i].character \in Alphabet

\* C5 (as claimed): as_hsl followed by the HslColor -> Color conversion gives
\* back every channel of the colour within 1.
C5_RoundTripWithinOne ==
    call = "from" =>
       /\ Abs(rgb.r - args[1]) <= 1
       /\ Abs(rgb.g - args[2]) <= 1
       /\ Abs(rgb.b - args[3]) <= 1

\* C6 (as claimed): from_rgb(x, y, z) is the Color r = x, g = y, b = z,
\* a = 255, the value of from_rgba(x, y, z, 255); from_rgba(x, y, z, w) is
\* the Color r = x, g = y, b = z, a = w.
C6_ConstructorsKeepChannels ==
    /\ call = "from_rgb" =>
          /\ rgb = [r |-> args[1], g |-> args[2], b |-> args[3], a |-> 255]
          /\ rgb = from_rgba(args[1], args[2], args[3], 255)
    /\ call = "from_rgba" =>
          rgb = [r |-> args[1], g |-> args[2], b |-> args[3], a |-> args[4]]

\* The glyph characters of a frame, in the order they reached the output.
GlyphChars(f) == SelectSeq(f, LAMBDA o : o.op \in {"Print", "write"})

\* A render call has just returned Ok and nothing of it failed.
RenderedOk ==
    pc = "step" /\ col = 0 /\ io.failed = "none" /\ io.dropped = {}

\* C7 (as claimed): a render of a width x height waterfall emits exactly
\* width * height glyph characters, the (y * width + x)-th of them being the
\* character of column x at row y.
C7_FrameIsRowMajor ==
    RenderedOk =>
       LET chars == GlyphChars(frame)
           w == waterfall.width
       IN  /\ Len(chars) = w * waterfall.height
           /\ \A x \in 0..(w - 1), y \in 0..(waterfall.height - 1) :
                 chars[y * w + x + 1].ch =
                    waterfall.columns[x + 1].glyphs[y + 1].character

\* C8 (as claimed): a failure of the size query or of any operation of a
\* render call ends main with an error: the loop does not go on.
C8_EveryIoFailureIsFatal ==
    (io.failed # "none" \/ io.dropped # {}) => pc = "failed"

\* C10 (as claimed): no step and no render indexes a glyph sequence out of
\* range, whatever the terminal size and the draws.
C10_NoRuntimeFault == pc # "panicked"

\* C11 (as claimed): fade_color leaves the character of the glyph unchanged,
\* does not change the hue of its colour and increases neither its
\* saturation nor its lightness; a saturation or lightness of 0 stays 0.
C11_FadeKeepsHueAndDims ==
    call = "fade_color" =>
       LET before == Glyph_new(characters[1], arg_color)
           after == as_hsl(rgb)
       IN  /\ fade_color(before).character = before.character
           /\ after.h = hsl.h
           /\ ~RLt[hsl.s, after.s]
           /\ ~RLt[hsl.l, after.l]

\* C12 (as claimed): as_hsl of an achromatic colour r = g = b = v is hue 0,
\* saturation 0 and lightness 100 * v / 255.
C12_AchromaticLightnessScaled ==
    (call = "as_hsl" /\ args[1] = args[2] /\ args[2] = args[3]) =>
       hsl = HslColor_new(Q(0), Q(0), Rat(100 * args[1], 255))

\* C13: every cell of the waterfall holds the space of Glyph::empty or a
\* character of the alphabet, and the cell a proceeding Column.step has just
\* written holds a character of the alphabet.
C13_CellsHoldAlphabetOrSpace ==
    /\ \A x \in 1..Len(waterfall.columns) :
          \A i \in 1..Len(waterfall.columns[x].glyphs) :
             waterfall.columns[x].glyphs[i].character
                \in Alphabet \cup {Glyph_empty.character}
    /\ (last.proceeded /\ pc # "panicked") =>
          LastColumn.glyphs[last.k + 1].character \in Alphabet

\* C13 witness: a step has just spawned the last character of the alphabet
\* in a column that still has a never-written cell.
C13_Witness ==
    /\ last.proceeded
    /\ pc # "panicked"
    /\ LastColumn.glyphs[last.k + 1].character = characters[Len(characters)]
    /\ \E i \in 1..Len(LastColumn.glyphs) :
          LastColumn.glyphs[i].character = Glyph_empty.character

\* C14: once the waterfall is built it has width columns, every column has
\* the height of the waterfall and as many glyphs as its height, and no
\* step of the program changes the width, the height of the waterfall or the
\* height of a column.
C14_ShapeIsFixed ==
    /\ [](built =>
            /\ Len(waterfall.columns) = waterfall.width
            /\ \A x \in 1..Len(waterfall.columns) :
                  /\ waterfall.columns[x].height = waterfall.height
                  /\ Len(waterfall.columns[x].glyphs) = waterfall.columns[x].height)
    /\ [][ built =>
             /\ waterfall'.width = waterfall.width
             /\ waterfall'.height = waterfall.height
             /\ Len(waterfall'.columns) = Len(waterfall.columns)
             /\ \A x \in 1..Len(waterfall.columns) :
                   waterfall'.columns[x].height = waterfall.columns[x].height
        ]_vars

\* C14 witness: a 1 x 3 waterfall whose column has been stepped through a
\* whole drop and a further proceeding tick.
C14_Witness ==
    /\ built
    /\ waterfall.width = 1
    /\ waterfall.height = 3
    /\ steps >= 4
    /\ waterfall.columns[1].active_index = 1
    /\ Len(waterfall.columns[1].glyphs) = 3

\* This transition is a Column::step call made by MatrixWaterfall::step
\* (one that returns or one that panics).
ColumnStepCalled == pc = "step" /\ pc' # "sleep"

\* C15: within one MatrixWaterfall::step the n-th Column::step call is on
\* column n, and the call returns only after width such calls, so every
\* column is stepped exactly once from left to right; the values drawn from
\* the shared random source are taken column by column (no value drawn by a
\* column comes before a value drawn by a column to its left); a Column::step
\* changes no other column, and the state it leaves in its own column is the
\* function Column::step of that column's state and of the values it drew.
C15_ColumnsSteppedInOrder ==
    /\ [](\A i \in 1..Len(draws), j \in 1..Len(draws) :
             i < j => draws[i] <= draws[j])
    /\ [](pc = "sleep" =>
             /\ col = waterfall.width
             /\ { draws[i] : i \in 1..Len(draws) } = 0..(waterfall.width - 1))
    /\ [][ ColumnStepCalled =>
             /\ last'.col = col
             /\ \A x \in 1..Len(waterfall.columns) :
                   x # col + 1 => waterfall'.columns[x] = waterfall.columns[x]
             /\ ColumnStepped =>
                   waterfall'.columns[col + 1] =
                      Column_step(waterfall.columns[col + 1], last'.gate,
                                  IF last'.char = <<>> THEN 0 ELSE last'.char[1])
        ]_vars

\* C15 witness: a MatrixWaterfall::step of two columns has returned in which
\* both columns drew a gate value and a character, the second column being
\* left different from the first.
C15_Witness ==
    /\ pc = "sleep"
    /\ waterfall.width = 2
    /\ draws = <<0, 0, 1, 1>>
    /\ waterfall.columns[1] # waterfall.columns[2]

\* Every column of the waterfall is as Column::new leaves it.
AllColumnsEmpty ==
    \A x \in 1..Len(waterfall.columns) :
       /\ waterfall.columns[x].active_index = 0
       /\ \A i \in 1..Len(waterfall.columns[x].glyphs) :
             waterfall.columns[x].glyphs[i] = Glyph_empty

\* C16: main renders and steps in strict alternation, render first: between
\* the start of a render call and the end of the MatrixWaterfall::step that
\* follows it one more render than steps has been made, otherwise as many
\* (so no two steps come without a render between them); the waterfall is
\* built once, before the first render, with every column empty at
\* active_index 0; the frame of the k-th render call is the rendering of the
\* waterfall as k - 1 step calls left it, and the first frame shows only
\* the spaces of empty glyphs.
C16_RenderStepAlternate ==
    /\ built <=> (pc # "start" /\ io.failed # "size")
    /\ pc \in {"start", "render", "sleep"} => renders = steps
    /\ (pc \in {"step", "panicked"} \/ (pc = "failed" /\ built)) =>
          renders = steps + 1
    /\ (built /\ steps = 0 /\ (pc = "render" \/ RenderedOk)) => AllColumnsEmpty
    /\ RenderedOk =>
          /\ frame = render_ops(waterfall)
          /\ steps = renders - 1
          /\ renders = 1 =>
                \A i \in 1..Len(frame) :
                   frame[i].op \in {"Print", "write"} =>
                      frame[i].ch = Glyph_empty.character

\* C16 witness: the third render call has just returned after two steps and
\* its frame shows a glyph that a step wrote.
C16_Witness ==
    /\ RenderedOk
    /\ renders = 3
    /\ steps = 2
    /\ \E i \in 1..Len(frame) :
          frame[i].op = "Print" /\ frame[i].ch \in Alphabet

\* A render call has returned Ok.
RenderReturnedOk == pc = "step" /\ col = 0 /\ io.failed = "none"

\* C17 (as claimed): a render call that returns Ok has emitted hide-cursor
\* and move-to-origin before the first glyph and show-cursor followed by
\* exactly one flush after the last; and in the output of every render
\* call, failed ones included, each hide-cursor is followed by a show-cursor.
C17_CursorShownAfterRender ==
    /\ RenderReturnedOk =>
          /\ Len(frame) >= 4
          /\ frame[1].op = "Hide"
          /\ frame[2].op = "MoveTo"
          /\ frame[Len(frame) - 1].op = "Show"
          /\ frame[Len(frame)].op = "flush"
          /\ \A i \in 3..(Len(frame) - 2) :
                frame[i].op \notin {"Hide", "MoveTo", "Show", "flush"}
    /\ \A i \in 1..Len(frame) :
          frame[i].op = "Hide" =>
             \E j \in (i + 1)..Len(frame) : frame[j].op = "Show"

\* The colour after j calls of fade_color on a glyph of colour `color`.
RECURSIVE faded_times(_, _)
faded_times(color, j) ==
    IF j = 0
    THEN color
    ELSE CHOOSE faded \in { fade_color(Glyph_new(Glyph_empty.character, prev)).color :
                               prev \in {faded_times(color, j - 1)} } : TRUE

Min(a, b) == IF a <= b THEN a ELSE b

\* C18: in every column of height h on which n Column.step calls have
\* proceeded (ticks holds min(h, n)), for every j below min(h, n) the cell at
\* (active_index - 1 - j) mod h holds base_color faded exactly j times (the
\* cell written last holds base_color itself); ticks the gate blocked are
\* not among the n and leave every cell as it was.
C18_TrailFadesFromHead ==
    built =>
       \A x \in 1..Len(waterfall.columns) :
          LET c == waterfall.columns[x]
          IN  \A j \in 0..(Min(c.height, ticks[x]) - 1) :
                 c.glyphs[((c.active_index - 1 - j) % c.height) + 1].color
                    = faded_times(c.base_color, j)

\* C18 witness: a column of height 3 past a whole drop, whose last tick at
\* index 0 was blocked by the gate: the head is the bottom cell, at
\* base_color, above it the cell faded once and at the top the cell faded
\* twice, three different colours.
C18_Witness ==
    /\ last.col >= 0
    /\ LastColumn.height = 3
    /\ ticks[last.col + 1] = 3
    /\ last.k = 0
    /\ ~last.proceeded
    /\ LastColumn.active_index = 0
    /\ LastColumn.glyphs[3].color = base_color
    /\ LastColumn.glyphs[2].color = faded_times(base_color, 1)
    /\ LastColumn.glyphs[1].color = faded_times(base_color, 2)
    /\ LastColumn.glyphs[2].color # base_color
    /\ LastColumn.glyphs[1].color # LastColumn.glyphs[2].color

\* C19: with the base colour of main, each column is in one of two states:
\* no Column.step has proceeded on it and every glyph is Glyph::empty (space,
\* alpha 0); or at least one has, every glyph has alpha 255 and every cell
\* never written is a space of colour (0, 0, 0, 255).
C19_EmptyMarkerGoneAfterFirstTick ==
    built =>
       \A x \in 1..Len(waterfall.columns) :
          LET c == waterfall.columns[x]
          IN  IF ticks[x] = 0
              THEN \A i \in 1..Len(c.glyphs) : c.glyphs[i] = Glyph_empty
              ELSE \A i \in 1..Len(c.glyphs) :
                      /\ c.glyphs[i].color.a = 255
                      /\ c.glyphs[i] # Glyph_empty
                      /\ c.glyphs[i].character = Glyph_empty.character =>
                            c.glyphs[i].color = from_rgba(0, 0, 0, 255)

\* C19 witness: the first proceeding tick of a column of height 3 has
\* written its top cell; the two cells below, never written, are spaces of
\* colour (0, 0, 0, 255).
C19_Witness ==
    /\ last.col >= 0
    /\ last.proceeded
    /\ LastColumn.height = 3
    /\ ticks[last.col + 1] = 1
    /\ LastColumn.glyphs[1].character \in Alphabet
    /\ LastColumn.glyphs[1].color.a = 255
    /\ \A i \in 2..3 :
          LastColumn.glyphs[i] = Glyph_new(Glyph_empty.character, from_rgba(0, 0, 0, 255))

\* Column x exists and has a cell i.
HasCell(x, i) == built /\ x < waterfall.width /\ i < waterfall.height

\* Column x has a cell k and its active_index is k.
ActiveAt(x, k) ==
    HasCell(x, k) /\ waterfall.columns[x + 1].active_index = k

\* Column x has a cell k and its active_index is (k + 1) mod height.
ActiveAfter(x, k) ==
    HasCell(x, k) /\ waterfall.columns[x + 1].active_index = (k + 1) % waterfall.height

\* This transition is a proceeding Column::step on column x at active_index
\* i: it overwrites cell i (with i = 0 it starts a new drop).
Overwrites(x, i) ==
    /\ pc = "step"
    /\ col = x
    /\ col' = x + 1
    /\ last'.proceeded
    /\ last'.k = i

\* C20: when the loop keeps ticking and no I/O fails, and the gate value
\* drawn at active_index 0 is at most 0.1 again and again, then in every
\* column of height >= 1 (height 1 included): cell 0 is overwritten
\* infinitely often (a new drop starts), every other cell is overwritten
\* infinitely often, and from each active_index k the column reaches
\* (k + 1) mod height, each proceeding tick moving the index by exactly one,
\* so a drop is back at 0 after exactly height proceeding ticks.
C20_DropsRecurForEver ==
    /\ \A x \in 0..(MaxWidth - 1), i \in 0..(MaxHeight - 1) :
          ([]<>HasCell(x, i)) => []<><<Overwrites(x, i)>>_vars
    /\ \A x \in 0..(MaxWidth - 1), k \in 0..(MaxHeight - 1) :
          ActiveAt(x, k) ~> ActiveAfter(x, k)
    /\ [][ ColumnStepped =>
             LET c == waterfall.columns[col + 1]
                 d == waterfall'.columns[col + 1]
             IN  d.active_index =
                    IF last'.proceeded THEN (c.active_index + 1) % c.height
                                       ELSE c.active_index
        ]_vars

\* C20 witness: a second (or later) drop has just started in a column of
\* height 3 whose three cells the drop before has written.
C20_Witness ==
    /\ last.col >= 0
    /\ LastColumn.height = 3
    /\ ticks[last.col + 1] = 3
    /\ last.k = 0
    /\ last.proceeded
    /\ LastColumn.active_index = 1
    /\ \A i \in 1..3 : LastColumn.glyphs[i].character \in Alphabet

====
